---- MODULE Spec2Model ----
(***************************************************************************)
(* A doubly-linked deque built from Rc<RefCell<Node<T>>> (src/fourth.rs).  *)
(* The heap is modelled explicitly: every node has an element, two links,  *)
(* a strong reference count (Rc) and a borrow flag (RefCell).              *)
(***************************************************************************)
EXTENDS Integers, Sequences, FiniteSets, TLC

\* ---------------------------------------------------------------- bounds
MaxNodes == 3
MaxElem == 2
MaxViews == 2

\* ------------------------------------------------------------ data model
None == 0
Nodes == 1..MaxNodes
Elem == 1..MaxElem
Link == Nodes \cup {None}

VARIABLES
  head, tail,        \* List { head, tail }
  elem, next, prev,  \* Node { elem, next, prev }, per node
  rc,                \* Rc strong count of each node (0 = not allocated)
  borrow,            \* RefCell borrow flag of each node: n > 0 readers, -1 writer
  fatal,             \* "none", or the panic that aborted the program
  phase,             \* "list", "iter" (wrapped in IntoIter), "dropping", "dropped"
  last,              \* the last call: its name, argument, result, count seen by try_unwrap
  iterInit,          \* elements of the list when into_iter wrapped it
  yieldF, yieldB,    \* elements yielded so far by next() and by next_back()
  dropN, dropSome, dropNone, \* teardown: nodes at its start, pops that gave Some / None
  held,              \* Ref<T> views the caller holds, per node
  wview,             \* the RefMut<T> view the caller holds: its node, the end that gave it
  leaked,            \* views the caller forgot (mem::forget) without dropping, per node
  trk                \* a value written through a view of one end, followed up to the
                     \* next push or pop at that end

views == <<held, wview, leaked>>

vars == <<head, tail, elem, next, prev, rc, borrow, fatal, phase, last,
          iterInit, yieldF, yieldB, dropN, dropSome, dropNone,
          held, wview, leaked, trk>>

\* The heap and the list as one value, threaded through the statements of a method.
St == [head |-> head, tail |-> tail, elem |-> elem, next |-> next, prev |-> prev,
       rc |-> rc, borrow |-> borrow, fatal |-> fatal]

Call(op, arg, ret, cnt) == [op |-> op, arg |-> arg, ret |-> ret, cnt |-> cnt]

\* ----------------------------------------------------- Rc / RefCell steps
Panic(st, kind) == [st EXCEPT !.fatal = kind]

\* Dropping an Option<Rc<..>>: decrement; the last owner frees the node and
\* drops the links stored in it.
RECURSIVE DropLink(_, _)
DropLink(st, l) ==
  IF l = None THEN st
  ELSE IF st.rc[l] > 1 THEN [st EXCEPT !.rc[l] = @ - 1]
  ELSE LET nx == st.next[l]
           pv == st.prev[l]
           s1 == [st EXCEPT !.rc[l] = 0, !.next[l] = None, !.prev[l] = None,
                            !.elem[l] = None, !.borrow[l] = 0]
       IN DropLink(DropLink(s1, nx), pv)

\* Rc::clone
RcClone(st, n) == [st EXCEPT !.rc[n] = @ + 1]

\* Assignments to a link slot drop the value the slot held.
SetHead(st, v) == DropLink([st EXCEPT !.head = v], st.head)
SetTail(st, v) == DropLink([st EXCEPT !.tail = v], st.tail)
SetNext(st, n, v) == DropLink([st EXCEPT !.next[n] = v], st.next[n])
SetPrev(st, n, v) == DropLink([st EXCEPT !.prev[n] = v], st.prev[n])

\* The allocator hands out the lowest free slot.
FreeNodes(st) == {n \in Nodes : st.rc[n] = 0}
Fresh(st) == CHOOSE n \in FreeNodes(st) : \A m \in FreeNodes(st) : n <= m

NodeNew(st, n, e) ==
  [st EXCEPT !.elem[n] = e, !.next[n] = None, !.prev[n] = None,
             !.rc[n] = 1, !.borrow[n] = 0]

\* Rc::try_unwrap(node).ok().unwrap().into_inner().elem : with one owner the
\* node is taken apart (its links dropped) and the element moved out;
\* otherwise ok() is None and unwrap() panics.
TryUnwrap(st, n) ==
  IF st.rc[n] = 1
  THEN LET e == st.elem[n]
       IN [st |-> DropLink(st, n), ret |-> e, cnt |-> 1]
  ELSE [st |-> Panic(DropLink(st, n), "extraction"), ret |-> None, cnt |-> st.rc[n]]

\* ------------------------------------------------------- List methods
\* Mutant: the old head's prev is not set to the new node.
push_front_some_noprev(st, new_head, old_head) ==
  SetHead(SetNext(st, new_head, old_head), new_head)

\* push_front, the list being non-empty: head has been taken into old_head.
push_front_some(st, new_head, old_head) ==
  IF st.borrow[old_head] # 0 THEN Panic(st, "aliasing")
  ELSE LET s1 == SetPrev(RcClone(st, new_head), old_head, new_head)
       IN IF s1.borrow[new_head] # 0 THEN Panic(s1, "aliasing")
          ELSE SetHead(SetNext(s1, new_head, old_head), new_head)

\* Mutant: the empty branch does not set tail.
push_front_none_notail(st, new_head) == SetHead(st, new_head)

\* Mutant: the empty branch stores the node twice without cloning the Rc.
push_front_none_noclone(st, new_head) ==
  SetHead(SetTail(st, new_head), new_head)

\* push_front, the list being empty.
push_front_none(st, new_head) ==
  SetHead(SetTail(RcClone(st, new_head), new_head), new_head)

\* n is the slot Node::new allocates.
push_front(st, n, e) ==
  LET s0 == NodeNew(st, n, e)
      old_head == s0.head
      s1 == [s0 EXCEPT !.head = None]
  IN IF old_head # None THEN push_front_some(s1, n, old_head)
     ELSE push_front_none(s1, n)

\* Mutant: the new head's prev is left naming the old head.
pop_front_some_keepprev(st, new_head) == SetHead(st, new_head)

\* pop_front, not emptying the list: head and old_head.next have been taken,
\* and old_head is still mutably borrowed by the match scrutinee.
pop_front_some(st, new_head) ==
  IF st.borrow[new_head] # 0 THEN Panic(st, "aliasing")
  ELSE LET taken == st.prev[new_head]
           s1 == DropLink([st EXCEPT !.prev[new_head] = None], taken)
       IN SetHead(s1, new_head)

\* Mutant: the emptying branch leaves tail alone.
pop_front_none_keeptail(st) == st

\* pop_front, emptying the list: self.tail.take() and the taken value dropped.
pop_front_none(st) == SetTail(st, None)

\* The closure pop_front maps over the taken head.
pop_front_node(st, old_head) ==
  IF st.borrow[old_head] # 0
  THEN [st |-> Panic(st, "aliasing"), ret |-> None, cnt |-> 0]
  ELSE LET new_head == st.next[old_head]
           s2 == [st EXCEPT !.next[old_head] = None, !.borrow[old_head] = -1]
           s3 == IF new_head # None THEN pop_front_some(s2, new_head)
                 ELSE pop_front_none(s2)
           s4 == [s3 EXCEPT !.borrow[old_head] = 0]
       IN IF s3.fatal # "none" THEN [st |-> s3, ret |-> None, cnt |-> 0]
          ELSE TryUnwrap(s4, old_head)

\* Mutant: the taken head is unwrapped instead of mapped.
pop_front_unwrap(st) ==
  IF st.head = None THEN [st |-> Panic(st, "unwrap"), ret |-> None, cnt |-> 0]
  ELSE pop_front_node([st EXCEPT !.head = None], st.head)

pop_front(st) ==
  IF st.head = None THEN [st |-> st, ret |-> None, cnt |-> 0]
  ELSE pop_front_node([st EXCEPT !.head = None], st.head)

\* Mutant: the old tail's next is not set to the new node.
push_back_some_nolink(st, new_tail, old_tail) ==
  SetTail(SetPrev(st, new_tail, old_tail), new_tail)

\* Mutant: the old tail is stored in the new node's next instead of its prev.
push_back_some_wrongfield(st, new_tail, old_tail) ==
  LET s1 == SetNext(RcClone(st, new_tail), old_tail, new_tail)
  IN SetTail(SetNext(s1, new_tail, old_tail), new_tail)

\* Mutant: the non-empty branch sets head too, as the empty branch does.
push_back_some_sethead(st, new_tail, old_tail) ==
  LET s1 == SetNext(RcClone(st, new_tail), old_tail, new_tail)
      s2 == SetTail(SetPrev(s1, new_tail, old_tail), new_tail)
  IN SetHead(RcClone(s2, new_tail), new_tail)

\* push_back, the list being non-empty: tail has been taken into old_tail.
push_back_some(st, new_tail, old_tail) ==
  IF st.borrow[old_tail] # 0 THEN Panic(st, "aliasing")
  ELSE LET s1 == SetNext(RcClone(st, new_tail), old_tail, new_tail)
       IN IF s1.borrow[new_tail] # 0 THEN Panic(s1, "aliasing")
          ELSE SetTail(SetPrev(s1, new_tail, old_tail), new_tail)

\* Mutant: the empty branch does not set head.
push_back_none_nohead(st, new_tail) == SetTail(st, new_tail)

\* push_back, the list being empty.
push_back_none(st, new_tail) ==
  SetHead(SetTail(RcClone(st, new_tail), new_tail), new_tail)

push_back(st, n, e) ==
  LET s0 == NodeNew(st, n, e)
      old_tail == s0.tail
      s1 == [s0 EXCEPT !.tail = None]
  IN IF old_tail # None THEN push_back_some(s1, n, old_tail)
     ELSE push_back_none(s1, n)

\* Mutant: the new tail's next is left naming the old tail.
pop_back_some_keepnext(st, new_tail) == SetTail(st, new_tail)

\* Mutant: the new tail is reached without the RefCell's check.
pop_back_some_unchecked(st, new_tail) ==
  LET taken == st.next[new_tail]
      s1 == DropLink([st EXCEPT !.next[new_tail] = None], taken)
  IN SetTail(s1, new_tail)

\* pop_back, not emptying the list.
pop_back_some(st, new_tail) ==
  IF st.borrow[new_tail] # 0 THEN Panic(st, "aliasing")
  ELSE LET taken == st.next[new_tail]
           s1 == DropLink([st EXCEPT !.next[new_tail] = None], taken)
       IN SetTail(s1, new_tail)

\* Mutant: the emptying branch leaves head alone.
pop_back_none_keephead(st) == st

\* pop_back, emptying the list: self.head.take().
pop_back_none(st) == SetHead(st, None)

\* The closure pop_back maps over the taken tail.
pop_back_node(st, old_tail) ==
  IF st.borrow[old_tail] # 0
  THEN [st |-> Panic(st, "aliasing"), ret |-> None, cnt |-> 0]
  ELSE LET new_tail == st.prev[old_tail]
           s2 == [st EXCEPT !.prev[old_tail] = None, !.borrow[old_tail] = -1]
           s3 == IF new_tail # None THEN pop_back_some(s2, new_tail)
                 ELSE pop_back_none(s2)
           s4 == [s3 EXCEPT !.borrow[old_tail] = 0]
       IN IF s3.fatal # "none" THEN [st |-> s3, ret |-> None, cnt |-> 0]
          ELSE TryUnwrap(s4, old_tail)

pop_back(st) ==
  IF st.tail = None THEN [st |-> st, ret |-> None, cnt |-> 0]
  ELSE pop_back_node([st EXCEPT !.tail = None], st.tail)

\* RefCell::borrow / borrow_mut on the node a link names, mapped to its elem.
\* Mutant: a shared borrow that asks for the cell to be unborrowed.
BorrowElem_exclusive(st, l) ==
  IF l = None THEN [st |-> st, ret |-> None, node |-> None]
  ELSE IF st.borrow[l] # 0
  THEN [st |-> Panic(st, "aliasing"), ret |-> None, node |-> None]
  ELSE [st |-> [st EXCEPT !.borrow[l] = @ + 1], ret |-> st.elem[l], node |-> l]

BorrowElem(st, l) ==
  IF l = None THEN [st |-> st, ret |-> None, node |-> None]
  ELSE IF st.borrow[l] < 0
  THEN [st |-> Panic(st, "aliasing"), ret |-> None, node |-> None]
  ELSE [st |-> [st EXCEPT !.borrow[l] = @ + 1], ret |-> st.elem[l], node |-> l]

\* Mutant: a mutable borrow that does not look at the flag.
BorrowMutElem_unchecked(st, l) ==
  IF l = None THEN [st |-> st, ret |-> None, node |-> None]
  ELSE [st |-> [st EXCEPT !.borrow[l] = -1], ret |-> st.elem[l], node |-> l]

BorrowMutElem(st, l) ==
  IF l = None THEN [st |-> st, ret |-> None, node |-> None]
  ELSE IF st.borrow[l] # 0
  THEN [st |-> Panic(st, "aliasing"), ret |-> None, node |-> None]
  ELSE [st |-> [st EXCEPT !.borrow[l] = -1], ret |-> st.elem[l], node |-> l]

\* Mutant: head is taken, not looked at through as_ref().
peek_front_take(st) ==
  LET r == BorrowElem(st, st.head) IN [r EXCEPT !.st = SetHead(r.st, None)]
peek_front(st) == BorrowElem(st, st.head)
\* Mutant: peek_front_mut looks at tail.
peek_front_mut_tail(st) == BorrowMutElem(st, st.tail)
peek_front_mut(st) == BorrowMutElem(st, st.head)
\* Mutant: peek_back looks at head.
peek_back_head(st) == BorrowElem(st, st.head)
peek_back(st) == BorrowElem(st, st.tail)
peek_back_mut(st) == BorrowMutElem(st, st.tail)

\* IntoIter: Iterator::next and DoubleEndedIterator::next_back.
iter_next(st) == pop_front(st)
\* Mutant: next_back pops from the front.
iter_next_back_front(st) == pop_front(st)
iter_next_back(st) == pop_back(st)

\* Drop for List: the call made by each turn of the loop.
\* Mutant: no loop of pops, the two fields of List are just dropped.
drop_turn_fields(st) ==
  [st |-> SetTail(SetHead(st, None), None), ret |-> None, cnt |-> 0]
drop_turn(st) == pop_front(st)

\* ------------------------------------------------------ observed state
\* Nodes met following a link function from n, at most k of them.
RECURSIVE Chain(_, _, _)
Chain(f, n, k) ==
  IF n = None \/ k = 0 THEN <<>> ELSE <<n>> \o Chain(f, f[n], k - 1)

FwdNodes == Chain(next, head, MaxNodes + 1)
BwdNodes == Chain(prev, tail, MaxNodes + 1)
Contents == [i \in 1..Len(FwdNodes) |-> elem[FwdNodes[i]]]
ElemsOf(st) ==
  LET c == Chain(st.next, st.head, MaxNodes + 1)
  IN [i \in 1..Len(c) |-> st.elem[c[i]]]
Live == {n \in Nodes : rc[n] > 0}

RECURSIVE SumTo(_, _)
SumTo(f, k) == IF k = 0 THEN 0 ELSE f[k] + SumTo(f, k - 1)
ReadViews == SumTo([n \in Nodes |-> IF borrow[n] > 0 THEN borrow[n] ELSE 0], MaxNodes)

\* What the borrow checker grants: &mut self (or self by value) while no view
\* borrows the list, &self while no mutable view does.
NoWView == [node |-> None, end |-> "none"]
NoViews == wview = NoWView /\ \A n \in Nodes : held[n] = 0
NoWriteView == wview = NoWView

\* The written value being followed: none, or the end it was written at, the
\* value, and whether the written node is still at that end with that value.
NoTrk == [end |-> "none", v |-> None, ok |-> FALSE]

\* A push (pop = FALSE) or pop at the front ends the follow-up of a front
\* write; a pop at the front that takes the only node takes the back's node.
TrkFrontOp(pop) ==
  IF trk.end = "front" THEN NoTrk
  ELSE IF trk.end = "back" /\ pop /\ head = tail THEN [trk EXCEPT !.ok = FALSE]
  ELSE trk

TrkBackOp(pop) ==
  IF trk.end = "back" THEN NoTrk
  ELSE IF trk.end = "front" /\ pop /\ head = tail THEN [trk EXCEPT !.ok = FALSE]
  ELSE trk

\* The node now at an end.
EndNode(e) == IF e = "front" THEN head ELSE IF e = "back" THEN tail ELSE None
Running == fatal = "none"

\* ------------------------------------------------------------- actions
Store(st) ==
  /\ head' = st.head /\ tail' = st.tail
  /\ elem' = st.elem /\ next' = st.next /\ prev' = st.prev
  /\ rc' = st.rc /\ borrow' = st.borrow /\ fatal' = st.fatal

Init ==
  /\ head = None /\ tail = None
  /\ elem = [n \in Nodes |-> None]
  /\ next = [n \in Nodes |-> None]
  /\ prev = [n \in Nodes |-> None]
  /\ rc = [n \in Nodes |-> 0]
  /\ borrow = [n \in Nodes |-> 0]
  /\ fatal = "none"
  /\ phase = "list"
  /\ last = Call("new", None, None, 0)
  /\ iterInit = <<>> /\ yieldF = <<>> /\ yieldB = <<>>
  /\ dropN = 0 /\ dropSome = 0 /\ dropNone = 0
  /\ held = [n \in Nodes |-> 0]
  /\ wview = NoWView
  /\ leaked = [n \in Nodes |-> [r |-> 0, w |-> 0]]
  /\ trk = NoTrk

PushFront ==
  /\ phase = "list" /\ Running /\ NoViews /\ FreeNodes(St) # {}
  /\ \E e \in Elem :
       /\ Store(push_front(St, Fresh(St), e))
       /\ last' = Call("push_front", e, None, 0)
  /\ UNCHANGED <<phase, iterInit, yieldF, yieldB, dropN, dropSome, dropNone>>
  /\ UNCHANGED views /\ trk' = TrkFrontOp(FALSE)

PushBack ==
  /\ phase = "list" /\ Running /\ NoViews /\ FreeNodes(St) # {}
  /\ \E e \in Elem :
       /\ Store(push_back(St, Fresh(St), e))
       /\ last' = Call("push_back", e, None, 0)
  /\ UNCHANGED <<phase, iterInit, yieldF, yieldB, dropN, dropSome, dropNone>>
  /\ UNCHANGED views /\ trk' = TrkBackOp(FALSE)

PopFront ==
  /\ phase = "list" /\ Running /\ NoViews
  /\ LET r == pop_front(St)
     IN Store(r.st) /\ last' = Call("pop_front", None, r.ret, r.cnt)
  /\ UNCHANGED <<phase, iterInit, yieldF, yieldB, dropN, dropSome, dropNone>>
  /\ UNCHANGED views /\ trk' = TrkFrontOp(TRUE)

PopBack ==
  /\ phase = "list" /\ Running /\ NoViews
  /\ LET r == pop_back(St)
     IN Store(r.st) /\ last' = Call("pop_back", None, r.ret, r.cnt)
  /\ UNCHANGED <<phase, iterInit, yieldF, yieldB, dropN, dropSome, dropNone>>
  /\ UNCHANGED views /\ trk' = TrkBackOp(TRUE)

PeekFront ==
  /\ phase = "list" /\ Running /\ NoWriteView /\ ReadViews < MaxViews
  /\ LET r == peek_front(St)
     IN /\ Store(r.st) /\ last' = Call("peek_front", None, r.ret, 0)
        /\ held' = IF r.node # None THEN [held EXCEPT ![r.node] = @ + 1] ELSE held
  /\ UNCHANGED <<phase, iterInit, yieldF, yieldB, dropN, dropSome, dropNone>>
  /\ UNCHANGED <<wview, leaked, trk>>

PeekBack ==
  /\ phase = "list" /\ Running /\ NoWriteView /\ ReadViews < MaxViews
  /\ LET r == peek_back(St)
     IN /\ Store(r.st) /\ last' = Call("peek_back", None, r.ret, 0)
        /\ held' = IF r.node # None THEN [held EXCEPT ![r.node] = @ + 1] ELSE held
  /\ UNCHANGED <<phase, iterInit, yieldF, yieldB, dropN, dropSome, dropNone>>
  /\ UNCHANGED <<wview, leaked, trk>>

PeekFrontMut ==
  /\ phase = "list" /\ Running /\ NoViews
  /\ LET r == peek_front_mut(St)
     IN /\ Store(r.st) /\ last' = Call("peek_front_mut", None, r.ret, 0)
        /\ wview' = IF r.node # None THEN [node |-> r.node, end |-> "front"] ELSE wview
  /\ UNCHANGED <<phase, iterInit, yieldF, yieldB, dropN, dropSome, dropNone>>
  /\ UNCHANGED <<held, leaked, trk>>

PeekBackMut ==
  /\ phase = "list" /\ Running /\ NoViews
  /\ LET r == peek_back_mut(St)
     IN /\ Store(r.st) /\ last' = Call("peek_back_mut", None, r.ret, 0)
        /\ wview' = IF r.node # None THEN [node |-> r.node, end |-> "back"] ELSE wview
  /\ UNCHANGED <<phase, iterInit, yieldF, yieldB, dropN, dropSome, dropNone>>
  /\ UNCHANGED <<held, leaked, trk>>

\* The caller assigns through the RefMut it holds. The written value is
\* followed from here on, or it is not: then what is being followed stays
\* so, spoilt if it was written at the other end and this write hits its node.
WriteView ==
  /\ phase = "list" /\ Running /\ wview # NoWView
  /\ \E v \in Elem :
       /\ elem' = [elem EXCEPT ![wview.node] = v]
       /\ last' = Call("write", v, None, 0)
       /\ \/ trk' = [end |-> wview.end, v |-> v, ok |-> TRUE]
          \/ /\ trk.end # wview.end
             /\ trk' = IF EndNode(trk.end) = wview.node
                       THEN [trk EXCEPT !.ok = FALSE] ELSE trk
  /\ UNCHANGED <<head, tail, next, prev, rc, borrow, fatal, phase,
                 iterInit, yieldF, yieldB, dropN, dropSome, dropNone>>
  /\ UNCHANGED views

\* The caller lets a Ref, or the RefMut, go out of scope.
ReleaseView ==
  /\ phase = "list" /\ Running
  /\ \/ \E n \in Nodes :
          /\ held[n] > 0
          /\ held' = [held EXCEPT ![n] = @ - 1]
          /\ borrow' = [borrow EXCEPT ![n] = @ - 1]
          /\ wview' = wview
     \/ /\ wview # NoWView
        /\ wview' = NoWView
        /\ borrow' = [borrow EXCEPT ![wview.node] = @ + 1]
        /\ held' = held
  /\ last' = Call("release", None, None, 0)
  /\ UNCHANGED <<head, tail, elem, next, prev, rc, fatal, phase,
                 iterInit, yieldF, yieldB, dropN, dropSome, dropNone, leaked, trk>>

\* The caller hands a Ref, or the RefMut, to mem::forget: it no longer
\* borrows the list, and the flag of the RefCell is never given back.
LeakView ==
  /\ phase = "list" /\ Running
  /\ \/ \E n \in Nodes :
          /\ held[n] > 0
          /\ held' = [held EXCEPT ![n] = @ - 1]
          /\ leaked' = [leaked EXCEPT ![n].r = @ + 1]
          /\ wview' = wview
     \/ /\ wview # NoWView
        /\ wview' = NoWView
        /\ leaked' = [leaked EXCEPT ![wview.node].w = @ + 1]
        /\ held' = held
  /\ last' = Call("forget", None, None, 0)
  /\ UNCHANGED <<head, tail, elem, next, prev, rc, borrow, fatal, phase,
                 iterInit, yieldF, yieldB, dropN, dropSome, dropNone, trk>>

IntoIter ==
  /\ phase = "list" /\ Running /\ NoViews
  /\ phase' = "iter"
  /\ iterInit' = Contents /\ yieldF' = <<>> /\ yieldB' = <<>>
  /\ last' = Call("into_iter", None, None, 0)
  /\ UNCHANGED <<head, tail, elem, next, prev, rc, borrow, fatal,
                 dropN, dropSome, dropNone, held, wview, leaked, trk>>

IterNext ==
  /\ phase = "iter" /\ Running
  /\ LET r == iter_next(St)
     IN /\ Store(r.st)
        /\ last' = Call("next", None, r.ret, r.cnt)
        /\ yieldF' = IF r.ret # None THEN Append(yieldF, r.ret) ELSE yieldF
  /\ UNCHANGED <<phase, iterInit, yieldB, dropN, dropSome, dropNone>>
  /\ UNCHANGED views /\ trk' = TrkFrontOp(TRUE)

IterNextBack ==
  /\ phase = "iter" /\ Running
  /\ LET r == iter_next_back(St)
     IN /\ Store(r.st)
        /\ last' = Call("next_back", None, r.ret, r.cnt)
        /\ yieldB' = IF r.ret # None THEN Append(yieldB, r.ret) ELSE yieldB
  /\ UNCHANGED <<phase, iterInit, yieldF, dropN, dropSome, dropNone>>
  /\ UNCHANGED views /\ trk' = TrkBackOp(TRUE)

\* The list (or the IntoIter holding it) goes out of scope: drop is entered.
Drop ==
  /\ phase \in {"list", "iter"} /\ Running /\ NoViews
  /\ phase' = "dropping"
  /\ dropN' = Cardinality(Live) /\ dropSome' = 0 /\ dropNone' = 0
  /\ last' = Call("drop", None, None, 0)
  /\ UNCHANGED <<head, tail, elem, next, prev, rc, borrow, fatal,
                 iterInit, yieldF, yieldB, held, wview, leaked, trk>>

\* One turn of  while self.pop_front().is_some() {}
DropLoop ==
  /\ phase = "dropping" /\ Running
  /\ LET r == drop_turn(St)
     IN /\ Store(r.st)
        /\ last' = Call("drop_pop", None, r.ret, r.cnt)
        /\ IF r.ret # None /\ r.st.fatal = "none"
           THEN phase' = phase /\ dropSome' = dropSome + 1 /\ dropNone' = dropNone
           ELSE IF r.st.fatal = "none"
           THEN phase' = "dropped" /\ dropSome' = dropSome /\ dropNone' = dropNone + 1
           ELSE UNCHANGED <<phase, dropSome, dropNone>>
  /\ UNCHANGED <<iterInit, yieldF, yieldB, dropN>>
  /\ UNCHANGED views /\ trk' = TrkFrontOp(TRUE)

Next ==
  \/ PushFront \/ PushBack \/ PopFront \/ PopBack
  \/ PeekFront \/ PeekBack \/ PeekFrontMut \/ PeekBackMut
  \/ WriteView \/ ReleaseView
  \/ IntoIter \/ IterNext \/ IterNextBack
  \/ Drop \/ DropLoop

Spec == Init /\ [][Next]_vars

\* Callers that may also forget views; no written value is followed here.
LeakNext ==
  \/ PushFront /\ trk' = NoTrk
  \/ PushBack /\ trk' = NoTrk
  \/ PopFront /\ trk' = NoTrk
  \/ PopBack /\ trk' = NoTrk
  \/ PeekFront /\ trk' = NoTrk
  \/ PeekBack /\ trk' = NoTrk
  \/ PeekFrontMut /\ trk' = NoTrk
  \/ PeekBackMut /\ trk' = NoTrk
  \/ WriteView /\ trk' = NoTrk
  \/ ReleaseView /\ trk' = NoTrk
  \/ LeakView /\ trk' = NoTrk
  \/ IntoIter /\ trk' = NoTrk
  \/ IterNext /\ trk' = NoTrk
  \/ IterNextBack /\ trk' = NoTrk
  \/ Drop /\ trk' = NoTrk
  \/ DropLoop /\ trk' = NoTrk
LeakSpec == Init /\ [][LeakNext]_vars

TypeOK ==
  /\ head \in Link /\ tail \in Link
  /\ elem \in [Nodes -> Elem \cup {None}]
  /\ next \in [Nodes -> Link] /\ prev \in [Nodes -> Link]
  /\ rc \in [Nodes -> 0..3]
  /\ borrow \in [Nodes -> -1..MaxViews]
  /\ fatal \in {"none", "extraction", "aliasing"}
  /\ phase \in {"list", "iter", "dropping", "dropped"}
  /\ held \in [Nodes -> 0..MaxViews]
  /\ wview \in [node : Link, end : {"none", "front", "back"}]
  /\ leaked \in [Nodes -> [r : 0..MaxViews, w : 0..1]]
  /\ trk \in [end : {"none", "front", "back"}, v : Elem \cup {None}, ok : BOOLEAN]

\* ------------------------------------------------------------ properties
FrontPops == {"pop_front", "next", "drop_pop"}
BackPops == {"pop_back", "next_back"}
Range(q) == {q[i] : i \in 1..Len(q)}
Reverse(q) == [i \in 1..Len(q) |-> q[Len(q) + 1 - i]]
Front(q) == SubSeq(q, 1, Len(q) - 1)
Empty == head = None /\ tail = None

\* C1: every push_front, push_back, pop_front and pop_back acts on the
\* elements reachable from head via next as the same call acts on a
\* sequence: push_front prepends, push_back appends, pop_front returns and
\* removes the first element, pop_back the last, and a pop of the empty
\* sequence returns None.
C1_DequeStep ==
  /\ fatal' = "none"
  /\ last'.op = "push_front" => Contents' = <<last'.arg>> \o Contents
  /\ last'.op = "push_back" => Contents' = Append(Contents, last'.arg)
  /\ last'.op = "pop_front" =>
       IF Contents = <<>> THEN last'.ret = None /\ Contents' = <<>>
       ELSE last'.ret = Head(Contents) /\ Contents' = Tail(Contents)
  /\ last'.op = "pop_back" =>
       IF Contents = <<>> THEN last'.ret = None /\ Contents' = <<>>
       ELSE last'.ret = Contents[Len(Contents)] /\ Contents' = Front(Contents)

C1_DequeRefinement ==
  [][last'.op \in {"push_front", "push_back", "pop_front", "pop_back"}
       => C1_DequeStep]_vars

C1_Witness ==
  /\ last.op = "pop_back" /\ last.ret = 1 /\ Contents = <<2, 1>>

\* C2: a pop_front or pop_back (called directly, by the iterator or by
\* drop) on an empty list returns None, does not panic and leaves head and
\* tail empty.
C2_PopEmpty ==
  [][Empty /\ last'.op \in FrontPops \cup BackPops
       => last'.ret = None /\ fatal' = "none" /\ head' = None /\ tail' = None]_vars

C2_Witness ==
  /\ Empty /\ last.op = "pop_back" /\ last.ret = None /\ fatal = "none"

\* C3: between calls, head is empty iff tail is empty iff no node is
\* allocated.
C3_EmptyAgree ==
  Running => /\ (head = None <=> tail = None)
             /\ (head = None <=> Live = {})

C3_Witness ==
  /\ Empty /\ Live = {} /\ last.op = "pop_back" /\ last.ret # None

\* C4: between calls, next and prev pair up (a.next = b iff b.prev = a), the
\* walk from head along next meets every allocated node exactly once and
\* ends at tail, and the walk from tail along prev is the same walk reversed.
C4_LinksPaired ==
  Running =>
    /\ \A a, b \in Live : next[a] = b <=> prev[b] = a
    /\ Len(FwdNodes) = Cardinality(Live) /\ Range(FwdNodes) = Live
    /\ FwdNodes # <<>> => FwdNodes[Len(FwdNodes)] = tail
    /\ BwdNodes = Reverse(FwdNodes)
    /\ BwdNodes # <<>> => BwdNodes[Len(BwdNodes)] = head

C4_Witness ==
  /\ Len(FwdNodes) = 3 /\ last.op = "push_back" /\ FwdNodes[1] > FwdNodes[2]

\* C5: between calls, the node head names has no prev and the node tail
\* names has no next.
C5_EndsOpen ==
  Running => /\ (head # None => prev[head] = None)
             /\ (tail # None => next[tail] = None)

C5_Witness ==
  /\ Len(FwdNodes) = 2 /\ last.op = "pop_front" /\ last.ret # None

\* C6: every pop of a non-empty list (called directly, by the iterator or
\* by drop) reaches Rc::try_unwrap with a strong count of exactly 1, and the
\* extraction panic does not happen.
C6_UniqueAtUnwrap ==
  [][(last'.op \in FrontPops /\ head # None) \/ (last'.op \in BackPops /\ tail # None)
       => last'.cnt = 1 /\ last'.ret # None /\ fatal' = "none"]_vars

C6_Witness ==
  /\ last.op = "pop_back" /\ last.cnt = 1 /\ Len(FwdNodes) = 2 /\ fatal = "none"

\* C7: while the list is iterated, what next() yielded so far (in order),
\* then what is left in the list, then what next_back() yielded so far
\* (reversed), is the list into_iter took; next() or next_back() returns
\* None only when as many elements were yielded as the list had.
C7_IterYields ==
  phase = "iter" /\ Running =>
    /\ yieldF \o Contents \o Reverse(yieldB) = iterInit
    /\ last.op \in {"next", "next_back"} /\ last.ret = None
         => Len(yieldF) + Len(yieldB) = Len(iterInit)

C7_Witness ==
  /\ phase = "iter" /\ iterInit = <<1, 2, 1>> /\ yieldF = <<1, 2>> /\ yieldB = <<1>>
  /\ last.op = "next" /\ last.ret = None

\* C8: once next() or next_back() has returned None, the next call of either
\* returns None too (and so every later one).
IterAbsent ==
  phase = "iter" /\ Running /\ last.op \in {"next", "next_back"} /\ last.ret = None

C8_AbsentForever == [][IterAbsent /\ phase' = "iter" => IterAbsent']_vars

C8_Witness ==
  /\ IterAbsent /\ last.op = "next_back" /\ yieldF # <<>> /\ yieldB = <<>>

\* C9: teardown of a list of N nodes ends after exactly N pops that return
\* an element and one that returns None, with no node allocated. It ends
\* because every turn of its loop either is the last one or leaves fewer
\* nodes allocated, and none panics; while it runs, the pops made so far
\* and the nodes still allocated add up to N.
C9_Inv ==
  /\ phase = "dropping" /\ Running
       => dropNone = 0 /\ dropSome + Cardinality(Live) = dropN
  /\ phase = "dropped"
       => /\ dropSome = dropN /\ dropNone = 1
          /\ \A n \in Nodes : rc[n] = 0
          /\ Empty /\ fatal = "none"

C9_Turn ==
  /\ fatal' = "none"
  /\ \/ phase' = "dropped"
     \/ phase' = "dropping" /\ Cardinality(Live') < Cardinality(Live)

C9_Teardown == []C9_Inv /\ [][phase = "dropping" => C9_Turn]_vars

C9_Witness ==
  /\ phase = "dropped" /\ dropN = 3 /\ dropSome = 3 /\ dropNone = 1

\* C10: peek_front returns None on an empty list and otherwise the first
\* element; peek_back returns None on an empty list and otherwise the last.
C10_Peek ==
  /\ last.op = "peek_front" =>
       /\ fatal = "none"
       /\ last.ret = IF Contents = <<>> THEN None ELSE Head(Contents)
  /\ last.op = "peek_back" =>
       /\ fatal = "none"
       /\ last.ret = IF Contents = <<>> THEN None ELSE Contents[Len(Contents)]

C10_Witness ==
  /\ last.op = "peek_back" /\ last.ret = 1 /\ Contents = <<2, 2, 1>>
  /\ borrow[head] = 1 /\ borrow[tail] = 1

\* C11 as stated: a value written through a view of one end is what the
\* next peek, mutable peek or pop at that end returns, as long as no push or
\* pop happened at that end since the write.
C11_StepYields(valid) ==
  /\ valid /\ trk.end = "front"
       /\ last'.op \in {"peek_front", "peek_front_mut", "pop_front"}
       => last'.ret = trk.v
  /\ valid /\ trk.end = "back"
       /\ last'.op \in {"peek_back", "peek_back_mut", "pop_back"}
       => last'.ret = trk.v

C11_AsStated == [][C11_StepYields(TRUE)]_vars

\* C11, amended: ... as long as, since the write, no push or pop happened at
\* that end, the written node was not popped from the other end, and no
\* write through a view of the other end reached it.
C11_WriteThenRead == [][C11_StepYields(trk.ok)]_vars

C11_Witness ==
  /\ last.op = "peek_front" /\ last.ret = 2
  /\ trk = [end |-> "front", v |-> 2, ok |-> TRUE]
  /\ Contents = <<2, 1>> /\ rc[3] = 0

\* Views outstanding on a node: held by the caller or forgotten by it.
ReadsOn(n) == held[n] + leaked[n].r
WritesOn(n) == leaked[n].w + (IF wview.node = n THEN 1 ELSE 0)
Viewed(n) == n # None /\ ReadsOn(n) + WritesOn(n) > 0

\* C12: on every node, in every state, there is at most one write view, and
\* where there is one there is no read view.
C12_ViewsExclusive ==
  \A n \in Nodes : WritesOn(n) <= 1 /\ (WritesOn(n) = 1 => ReadsOn(n) = 0)

C12_Witness ==
  /\ fatal = "aliasing" /\ last.op = "peek_back_mut"
  /\ tail # None /\ ReadsOn(tail) = 2 /\ WritesOn(tail) = 0

\* C13: a call that has to borrow a node against a view outstanding on it
\* panics and returns nothing: a peek of a node with a write view; a mutable
\* peek or a push at an end whose node has a view; a pop at an end whose
\* node, or the node next to it, has a view.
C13_Conflict(op) ==
  \/ op = "peek_front" /\ head # None /\ WritesOn(head) > 0
  \/ op = "peek_back" /\ tail # None /\ WritesOn(tail) > 0
  \/ op \in {"peek_front_mut", "push_front"} /\ Viewed(head)
  \/ op \in {"peek_back_mut", "push_back"} /\ Viewed(tail)
  \/ op \in FrontPops /\ head # None /\ (Viewed(head) \/ Viewed(next[head]))
  \/ op \in BackPops /\ tail # None /\ (Viewed(tail) \/ Viewed(prev[tail]))

C13_ConflictPanics ==
  [][C13_Conflict(last'.op) => fatal' = "aliasing" /\ last'.ret = None]_vars

C13_Witness ==
  /\ fatal = "aliasing" /\ last.op = "pop_back"
  /\ head # None /\ leaked[head].r = 1 /\ Cardinality(Live) = 2

\* C19: a peek_front or peek_back of a node with no write view succeeds
\* whatever read views are outstanding on it: it does not panic, returns
\* the node's element and the caller holds one more read view of the node.
C19_PeekOk(op, n) ==
  last'.op = op /\ n # None /\ WritesOn(n) = 0
    => fatal' = "none" /\ last'.ret = elem[n] /\ held'[n] = held[n] + 1

C19_SharedReads ==
  [][C19_PeekOk("peek_front", head) /\ C19_PeekOk("peek_back", tail)]_vars

C19_Witness ==
  /\ head # None /\ head = tail /\ held[head] = 2 /\ fatal = "none"
  /\ last.op = "peek_back"

\* Owning references into a node from the front side (head, or the next
\* link of a node) and from the back side (tail, or the prev link of a node).
FrontRefs(n) ==
  (IF head = n THEN 1 ELSE 0) + Cardinality({m \in Nodes : next[m] = n})
BackRefs(n) ==
  (IF tail = n THEN 1 ELSE 0) + Cardinality({m \in Nodes : prev[m] = n})

\* C14: between calls every node of the list has a strong count of 2, one
\* reference from the front side and one from the back side, and every
\* other node has none; a push takes the new node from 0 to 2 and leaves the
\* old end node's count as it was, a pop that does not empty the list leaves
\* the new end node's count as it was.
C14_Counts ==
  Running => \A n \in Nodes :
    IF n \in Range(FwdNodes)
    THEN rc[n] = 2 /\ FrontRefs(n) = 1 /\ BackRefs(n) = 1
    ELSE rc[n] = 0 /\ FrontRefs(n) = 0 /\ BackRefs(n) = 0

C14_Step ==
  /\ last'.op = "push_front" =>
       /\ rc[head'] = 0 /\ rc'[head'] = 2
       /\ head # None => rc'[head] = rc[head]
  /\ last'.op = "push_back" =>
       /\ rc[tail'] = 0 /\ rc'[tail'] = 2
       /\ tail # None => rc'[tail] = rc[tail]
  /\ last'.op \in FrontPops /\ head' # None => rc'[head'] = rc[head']
  /\ last'.op \in BackPops /\ tail' # None => rc'[tail'] = rc[tail']

C14_RefCounts == []C14_Counts /\ [][C14_Step]_vars

C14_Witness ==
  /\ last.op = "pop_back" /\ last.ret # None /\ Len(FwdNodes) = 2
  /\ rc[tail] = 2 /\ Cardinality(Live) = 2

\* C15: the back operations are the front operations seen in the mirror
\* (head and tail swapped, next and prev swapped): from every state, a back
\* operation on the mirrored list gives the mirror of what the front
\* operation gives on the list, with the same result, and the other way
\* round; the mirrored list holds the elements in reverse order.
Mirror(st) ==
  [st EXCEPT !.head = st.tail, !.tail = st.head, !.next = st.prev, !.prev = st.next]
MirrorR(r) == [r EXCEPT !.st = Mirror(r.st)]

C15_Mirror ==
  Running =>
    /\ pop_back(Mirror(St)) = MirrorR(pop_front(St))
    /\ pop_front(Mirror(St)) = MirrorR(pop_back(St))
    /\ ElemsOf(Mirror(St)) = Reverse(Contents)
    /\ FreeNodes(St) # {} => \A e \in Elem :
         /\ push_back(Mirror(St), Fresh(St), e) = Mirror(push_front(St, Fresh(St), e))
         /\ push_front(Mirror(St), Fresh(St), e) = Mirror(push_back(St, Fresh(St), e))

C15_Witness ==
  /\ last.op = "pop_back" /\ last.ret = 1 /\ Contents = <<1, 2>>

\* C16: when one node is allocated, head and tail name it, and a pop from
\* either end returns its element, leaves head and tail empty, and leaves a
\* list whose pop from either end returns None.
C16_Single ==
  [][Cardinality(Live) = 1 /\ last'.op \in FrontPops \cup BackPops =>
       /\ head # None /\ head = tail
       /\ last'.ret = elem[head] /\ fatal' = "none"
       /\ head' = None /\ tail' = None
       /\ pop_front(St').ret = None /\ pop_back(St').ret = None]_vars

C16_Witness ==
  /\ Empty /\ last.op = "pop_front" /\ last.ret = 2 /\ fatal = "none"

\* C17: the four peeks leave head, tail, every link, every element and every
\* strong count as they were; a write through a mutable view changes the
\* element of the node at the end the view was taken from, and nothing else
\* of these.
C17_Step ==
  /\ last'.op \in {"peek_front", "peek_back", "peek_front_mut", "peek_back_mut"}
       => UNCHANGED <<head, tail, next, prev, elem, rc>>
  /\ last'.op = "write" =>
       /\ UNCHANGED <<head, tail, next, prev, rc>>
       /\ EndNode(wview.end) # None
       /\ elem' = [elem EXCEPT ![EndNode(wview.end)] = last'.arg]

C17_PeekFrame == [][C17_Step]_vars

C17_Witness ==
  /\ last.op = "write" /\ last.arg = 2 /\ wview.end = "back"
  /\ Contents = <<1, 1, 2>>

\* C18 as stated: push_front on a non-empty list and pop_front on a list of
\* two or more leave tail, the tail node, and the element and links of every
\* node but the old and the new head as they were; push_back and pop_back
\* leave head, and every node but the old and the new tail, as they were.
NodeSame(n) ==
  n # None => elem'[n] = elem[n] /\ next'[n] = next[n] /\ prev'[n] = prev[n]

C18_Step(tailNodeToo) ==
  /\ \/ last'.op = "push_front" /\ head # None
     \/ last'.op = "pop_front" /\ Cardinality(Live) >= 2
     => /\ tail' = tail
        /\ tailNodeToo => NodeSame(tail)
        /\ \A n \in Live \ {head, head'} : NodeSame(n)
  /\ \/ last'.op = "push_back" /\ tail # None
     \/ last'.op = "pop_back" /\ Cardinality(Live) >= 2
     => /\ head' = head
        /\ \A n \in Live \ {tail, tail'} : NodeSame(n)

C18_AsStated == [][C18_Step(TRUE)]_vars

\* C18, amended: the same, the tail node being left as it was only when it
\* is neither the old nor the new head.
C18_OtherEndFrame == [][C18_Step(FALSE)]_vars

C18_Witness ==
  /\ last.op = "pop_front" /\ last.ret # None /\ Len(FwdNodes) = 2

\* C20: from every state in which a push can be called, push_front(x) and
\* then pop_front returns x and gives back the same elements in the same
\* order, the same emptiness of head and of tail and the same strong count
\* of every node; likewise push_back(x) and then pop_back.
C20_Restored(r, x) ==
  /\ r.st.fatal = "none" /\ r.ret = x
  /\ ElemsOf(r.st) = Contents
  /\ (r.st.head = None <=> head = None) /\ (r.st.tail = None <=> tail = None)
  /\ r.st.rc = rc

C20_PushPop ==
  Running /\ NoViews /\ FreeNodes(St) # {} => \A x \in Elem :
    /\ C20_Restored(pop_front(push_front(St, Fresh(St), x)), x)
    /\ C20_Restored(pop_back(push_back(St, Fresh(St), x)), x)

C20_Witness ==
  /\ last.op = "pop_back" /\ last.ret = 2 /\ Contents = <<1, 2>> /\ NoViews
  /\ FreeNodes(St) # {}

====
